---------------------------- MODULE Spec2Model ----------------------------
(***************************************************************************)
(* Model of the lerobot cloud-training orchestration:                      *)
(*   - SSHTunnel (cloud/ssh_tunnel.py): connect / execute_command /        *)
(*     download_file / close;                                              *)
(*   - TrainingRunner (cloud/training_runner.py): setup_instance,          *)
(*     run_training, download_checkpoint;                                  *)
(*   - AWSClient (cloud/aws_client.py) and EC2Manager                      *)
(*     (cloud/ec2_manager.py): key pair, security group, launch_instance; *)
(*   - the `launch`, `train`, `logs` and `terminate` commands of          *)
(*     scripts/lerobot_cloud_train.py.                                     *)
(* One run is driven by one entry point (cmd): one of the commands, or a  *)
(* client of the library classes ("api") that calls their public methods  *)
(* in any order.                                                           *)
(***************************************************************************)
EXTENDS Integers, Sequences, FiniteSets, TLC

VARIABLES
    cmd,            \* entry point of this run: "train" | "terminate" | "logs" | "launch" | "api"
    pc,             \* control location of the run
    optSetup,       \* train --setup / terminate --cleanup option value
    status,         \* train: local `status` (get_instance_status result)
    ip_address,     \* train: local `ip_address` (get_instance_ip result)
    client,         \* SSHTunnel.client: "None" | "unconnected" | "connected" | "closed"
    sftp,           \* SSHTunnel.sftp:   "None" | "open" | "closed"
    leaked,         \* connected clients dropped by reassignment without close()
    max_retries,    \* connect(): argument
    retry_delay,    \* connect(): argument
    attempt,        \* connect(): number of loop iterations started so far
    sleeps,         \* connect(): the delays slept so far, in order
    outcomes,       \* connect(): what each attempt met, in order
    connectResult,  \* connect(): "none" | "True" | "False" | "raised"
    closeCalls,     \* number of SSHTunnel.close() calls
    issued,         \* commands handed to client.exec_command, in order
    lastResult,     \* (exit_code, stderr) of the last execute_command return
    warnings,       \* exit codes logged by execute_command's warning, in order
    setupIdx,       \* setup_instance: index of the next setup command (1-based)
    setupResult,    \* setup_instance return: "none" | "True" | "False" | "raised"
    trainResult,    \* run_training return: "none" | "True" | "False" | "raised"
    downloads,      \* outcomes of sftp.get calls, in order
    dlResult,       \* download_checkpoint return: "none" | "True" | "False" | "raised"
    termCalls,      \* number of ec2.terminate_instances calls
    cleanupLog,     \* terminate --cleanup: deletions attempted, in order
    raised,         \* exception that left the last call / the command ("none" if none)
    exitStatus,     \* command outcome: "running" | 0 | 1 | "interrupt"
    calls,          \* api: number of method calls made
    lastCall,       \* api: the last method called
    describes,      \* number of ec2.describe_instances requests
    statusResult,   \* get_training_status is_running: "none" | "True" | "False" | "raised"
    stdout,         \* get_training_status: the stdout text execute_command returned
    delivered,      \* logs: number of poll results echoed to the user
    plan,           \* remote process: the writes it makes, in order
    written,        \* remote process: number of writes done
    outBuf,         \* channel: stdout lines received and not yet read
    errBuf,         \* channel: stderr lines received and not yet read
    reading,        \* execute_command: "stdout" | "stderr" | "returned"
    stdout_text,    \* execute_command: local stdout_text
    stderr_text,    \* execute_command: local stderr_text
    printed,        \* execute_command: the lines print() showed, in order
    dataset_repo_id, \* run_training: argument (a text)
    policy_type,    \* run_training: argument (a text)
    batch_size,     \* run_training: argument (its decimal digits)
    steps,          \* run_training: argument (its decimal digits)
    hf_token,       \* run_training: argument (<<>>: None or empty)
    policy_repo_id, \* run_training: argument (<<>>: None or empty)
    train_args,     \* run_training: local train_args, a list of texts
    training_cmd,   \* run_training: local training_cmd (<<>>: not built yet)
    uploads,        \* outcomes of sftp.put calls, in order
    xferResult,     \* upload_file / download_file return: "none" | "True" | "False" | "raised"
    keyRegistered,  \* EC2: a key pair named lerobot-training-key is registered
    keyFile,        \* ~/.ssh/lerobot-training-key.pem: "absent" | "match" (the registered key's material)
    sgExists,       \* EC2: a security group named lerobot-training exists
    sgSsh,          \* EC2: that group has the tcp/22 ingress rule
    keyCreates,     \* number of key pairs create_key_pair has registered
    sgCreates,      \* number of groups create_security_group has created
    nodes,          \* number of instances run_instances has started
    launches,       \* number of runs of the launch command started
    keyLookup,      \* this launch: what describe_key_pairs met ("none" before)
    sgLookup,       \* this launch: what describe_security_groups met ("none" before)
    keyPath,        \* this launch: create_or_get_key_pair return: "none" | "path" | "raised"
    sgId,           \* this launch: create_or_get_security_group return: "none" | "sg" | "raised"
    ec2Calls,       \* this launch: EC2 operations requested by launch_instance, in order
    instance_id     \* this launch: launch_instance return ("none" before)

tunnelVars == <<client, sftp, leaked>>
connVars == <<max_retries, retry_delay, attempt, sleeps, outcomes, connectResult>>
execVars == <<issued, lastResult, warnings>>
runnerVars == <<setupIdx, setupResult, trainResult, downloads, dlResult>>
nodeVars == <<status, ip_address>>
awsVars == <<termCalls, cleanupLog>>
apiVars == <<calls, lastCall>>
\* one execute_command call seen at the level of its channel
streamVars == <<plan, written, outBuf, errBuf, reading, stdout_text, stderr_text,
                printed>>
\* run_training as the builder of its command text
buildVars == <<dataset_repo_id, policy_type, batch_size, steps, hf_token,
               policy_repo_id, train_args, training_cmd>>
\* state that the commands and the runner never touch, or only logs does
\* direct file transfers of a client of SSHTunnel
xferVars == <<uploads, xferResult>>
\* the AWS account and key directory, and one run of the launch command
accountVars == <<keyRegistered, keyFile, sgExists, sgSsh, keyCreates, sgCreates, nodes>>
launchVars == <<accountVars, launches, keyLookup, sgLookup, keyPath, sgId, ec2Calls,
                instance_id>>
sideVars == <<delivered, streamVars, buildVars, xferVars, launchVars>>
probeVars == <<statusResult, stdout>>
\* everything but the channel-level view of one execute_command call
progVars == <<cmd, pc, optSetup, nodeVars, tunnelVars, connVars, closeCalls, execVars,
              runnerVars, awsVars, raised, exitStatus, apiVars, describes, probeVars,
              delivered>>
mainVars == <<progVars, buildVars, xferVars, launchVars>>
vars == <<cmd, pc, optSetup, nodeVars, tunnelVars, connVars, closeCalls, execVars,
          runnerVars, awsVars, raised, exitStatus, apiVars, describes, probeVars,
          sideVars>>

---------------------------------------------------------------------------
(* Bounds of the model *)

\* api: largest max_retries a caller passes to connect()
MaxRetriesBound == 2
\* api: number of method calls one client makes
MaxCalls == 3
\* launch: number of times the launch command is run on one account
MaxLaunches == 3
\* logs --follow: number of polls before the user interrupts
MaxPolls == 3
\* streaming: number of lines the remote process writes
MaxWrites == 3
\* streaming: lines one stream of the channel holds before the writer blocks
ChanCap == 1

(* Program constants *)

\* connect(max_retries=5, ...) default, used by train
DefaultMaxRetries == 5
\* connect(..., retry_delay=5) default, used by train
DefaultRetryDelay == 5
\* raise typer.Exit(1)
ExitFailure == 1

Delays == {1, DefaultRetryDelay}
ExitCodes == {0, 1, 127}
StderrTexts == {<<>>, <<"E">>}
NoResult == [exit_code |-> -1, stderr |-> <<>>]

---------------------------------------------------------------------------
(* SSHTunnel.connect *)

\* What one connection attempt can meet.
Transient == {"refused", "noroute", "timeout"}
ConnectOutcomes == Transient \cup {"ok", "auth", "sftp_fail", "interrupt"}

\* The exception class each failing outcome raises inside the try block.
ExcOf(o) ==
    CASE o = "refused"   -> "NoValidConnectionsError"
      [] o = "noroute"   -> "OSError"
      [] o = "timeout"   -> "SSHException"
      [] o = "auth"      -> "AuthenticationException"
      [] o = "sftp_fail" -> "SSHException"
      [] o = "interrupt" -> "KeyboardInterrupt"
      [] OTHER           -> "none"

\* Direct base class (paramiko.ssh_exception / builtins).
BaseOf(c) ==
    CASE c = "AuthenticationException" -> "SSHException"
      [] c = "SSHException"            -> "Exception"
      [] c = "NoValidConnectionsError" -> "OSError"
      [] c = "ConnectionRefusedError"  -> "OSError"
      [] c = "OSError"                 -> "Exception"
      [] c = "RuntimeError"            -> "Exception"
      [] c = "TypeError"               -> "Exception"
      [] c = "ValueError"              -> "Exception"
      [] c = "Exit"                    -> "RuntimeError"
      [] c = "ClientError"             -> "Exception"
      [] c = "Exception"               -> "BaseException"
      [] c = "KeyboardInterrupt"       -> "BaseException"
      [] OTHER                         -> "object"

RECURSIVE IsSubclass(_, _)
IsSubclass(c, d) ==
    IF c = d THEN TRUE
    ELSE IF c \in {"object", "none"} THEN FALSE
    ELSE IsSubclass(BaseOf(c), d)

\* except (NoValidConnectionsError, SSHException, ConnectionRefusedError, OSError)
ConnectCaught ==
    {"NoValidConnectionsError", "SSHException", "ConnectionRefusedError", "OSError"}

IsCaught(o) == \E d \in ConnectCaught : IsSubclass(ExcOf(o), d)

\* if attempt < max_retries - 1   (attempt is the 0-based loop index)
RetryAllowedOffByOne(idx, n) == idx < n

RetryAllowed(idx, n) == idx < n - 1

\* time.sleep(retry_delay)
SleepDelayBackoff(idx, d) == d * (idx + 1)

SleepDelay(idx, d) == d

\* self.client after the attempt's try block
ClientAfter(o) ==
    IF o \in {"ok", "sftp_fail"} THEN "connected" ELSE "unconnected"

\* where control goes when a library call returns or raises
Resume(next) == IF cmd = "api" THEN "idle" ELSE next

LoopRunsAtLeastOnce(idx, n) == idx < n \/ idx = 0

\* `for attempt in range(max_retries)` has an iteration with index idx
LoopRuns(idx, n) == idx < n

\* One iteration of `for attempt in range(max_retries)`.
ConnectAttempt(o) ==
    /\ pc = "connect"
    /\ LoopRuns(attempt, max_retries)
    /\ attempt' = attempt + 1
    /\ outcomes' = Append(outcomes, o)
    /\ leaked' = IF client = "connected" THEN leaked + 1 ELSE leaked
    /\ client' = ClientAfter(o)
    /\ sftp' = IF o = "ok" THEN "open" ELSE sftp
    /\ IF o = "ok"
       THEN /\ connectResult' = "True"
            /\ pc' = Resume("t_after_connect")
            /\ UNCHANGED <<sleeps, raised>>
       ELSE IF IsCaught(o)
       THEN IF RetryAllowed(attempt, max_retries)
            THEN /\ sleeps' = Append(sleeps, SleepDelay(attempt, retry_delay))
                 /\ UNCHANGED <<connectResult, pc, raised>>
            ELSE /\ connectResult' = "False"
                 /\ pc' = Resume("t_after_connect")
                 /\ UNCHANGED <<sleeps, raised>>
       ELSE /\ connectResult' = "raised"
            /\ raised' = ExcOf(o)
            /\ pc' = Resume("done")
            /\ UNCHANGED sleeps
    /\ UNCHANGED <<cmd, sideVars, describes, probeVars,
                   optSetup, nodeVars, max_retries, retry_delay, closeCalls,
                   execVars, runnerVars, awsVars, exitStatus, apiVars>>

\* The loop body never ran (max_retries <= 0): the trailing `return False`.
ConnectExhausted ==
    /\ pc = "connect"
    /\ ~LoopRuns(attempt, max_retries)
    /\ connectResult' = "False"
    /\ pc' = Resume("t_after_connect")
    /\ UNCHANGED <<cmd, sideVars, describes, probeVars,
                   optSetup, nodeVars, tunnelVars, max_retries, retry_delay,
                   attempt, sleeps, outcomes, closeCalls, execVars, runnerVars,
                   awsVars, raised, exitStatus, apiVars>>

\* Entry of connect(n, d): the call's locals start fresh.
EnterConnect(n, d) ==
    /\ max_retries' = n
    /\ retry_delay' = d
    /\ attempt' = 0
    /\ sleeps' = <<>>
    /\ outcomes' = <<>>
    /\ connectResult' = "none"
    /\ pc' = "connect"

---------------------------------------------------------------------------
(* SSHTunnel.close *)

\* if self.client: self.client.close()
CloseClient(c) == IF c = "connected" THEN "closed" ELSE c

CloseSftpForgotten(s) == s

\* if self.sftp: self.sftp.close()
CloseSftp(s) == IF s = "open" THEN "closed" ELSE s

\* effect of one close() call on the tunnel
DoClose ==
    /\ sftp' = CloseSftp(sftp)
    /\ client' = CloseClient(client)
    /\ closeCalls' = closeCalls + 1
    /\ UNCHANGED leaked

---------------------------------------------------------------------------
(* SSHTunnel.execute_command *)

\* What running one remote command can meet once exec_command accepted it:
\* the process exits with a code and some stderr text, or the caller
\* interrupts the wait (KeyboardInterrupt while the output is read).
ExecOutcomes ==
    [kind : {"exit"}, exit_code : ExitCodes, stderr : StderrTexts]
        \cup {[kind |-> "interrupt", exit_code |-> -1, stderr |-> <<>>]}

ExecRaiseNever(x) == "none"

\* The exception that leaves execute_command ("none": it returns).
\*   client is None          -> RuntimeError("Not connected...")
\*   client without a live transport -> exec_command raises in paramiko
ExecRaise(x) ==
    IF client = "None" THEN "RuntimeError"
    ELSE IF client # "connected" THEN "SSHException"
    ELSE IF x.kind = "interrupt" THEN "KeyboardInterrupt"
    ELSE "none"

\* if exit_code != 0: logger.warning(...)
WarnsOn(exit_code) == exit_code # 0

ExecReturnTruthy(x) ==
    [exit_code |-> IF x.exit_code = 0 THEN 0 ELSE 1, stderr |-> x.stderr]

\* return exit_code, stdout_text, stderr_text
ExecReturn(x) == [exit_code |-> x.exit_code, stderr |-> x.stderr]

ExecEffectKills(c, x) ==
    IF client # "connected"
    THEN UNCHANGED execVars
    ELSE /\ issued' = IF x.kind = "interrupt"
                      THEN Append(Append(issued, c), "kill")
                      ELSE Append(issued, c)
         /\ IF x.kind = "interrupt"
            THEN UNCHANGED <<lastResult, warnings>>
            ELSE /\ lastResult' = [exit_code |-> x.exit_code, stderr |-> x.stderr]
                 /\ warnings' = IF x.exit_code # 0
                                THEN Append(warnings, x.exit_code)
                                ELSE warnings

\* State change of execute_command(c) meeting x.
ExecEffect(c, x) ==
    IF client # "connected"
    THEN UNCHANGED execVars
    ELSE /\ issued' = Append(issued, c)
         /\ IF x.kind = "interrupt"
            THEN UNCHANGED <<lastResult, warnings>>
            ELSE /\ lastResult' = ExecReturn(x)
                 /\ warnings' = IF WarnsOn(x.exit_code)
                                THEN Append(warnings, x.exit_code)
                                ELSE warnings

---------------------------------------------------------------------------
(* TrainingRunner.setup_instance *)

SetupCommands == <<"apt_update", "apt_install", "venv", "pip_install">>
WorkloadCommand == "lerobot_train"

SetupFailsOnOne(exit_code) == exit_code = 1

\* if exit_code != 0: ... return False
SetupFails(exit_code) == exit_code # 0

\* One setup command: execute_command, then the exit-code test.
NextSetupIdxRestart(i) == 1

\* setup_instance goes on to its next command
NextSetupIdx(i) == i + 1

SetupStep(x) ==
    /\ pc = "setup"
    /\ ExecEffect(SetupCommands[setupIdx], x)
    /\ IF ExecRaise(x) # "none"
       THEN /\ setupResult' = "raised"
            /\ raised' = ExecRaise(x)
            /\ pc' = Resume("t_finally")
            /\ UNCHANGED setupIdx
       ELSE IF SetupFails(x.exit_code)
       THEN /\ setupResult' = "False"
            /\ pc' = Resume("t_after_call")
            /\ UNCHANGED <<setupIdx, raised>>
       ELSE IF setupIdx = Len(SetupCommands)
       THEN /\ setupResult' = "True"
            /\ pc' = Resume("t_after_call")
            /\ UNCHANGED <<setupIdx, raised>>
       ELSE /\ setupIdx' = NextSetupIdx(setupIdx)
            /\ UNCHANGED <<setupResult, pc, raised>>
    /\ UNCHANGED <<cmd, sideVars, describes, probeVars,
                   optSetup, nodeVars, tunnelVars, connVars, closeCalls,
                   trainResult, downloads, dlResult, awsVars, exitStatus, apiVars>>

---------------------------------------------------------------------------
(* TrainingRunner.run_training *)

\* Parameters of run_training (besides self).
RunTrainingParams ==
    {"dataset_repo_id", "policy_type", "batch_size", "steps", "hf_token",
     "policy_repo_id"}
RunTrainingRequired == {"dataset_repo_id"}

\* Keyword arguments the train command passes.
TrainKwargs ==
    {"dataset_repo_id", "policy_type", "batch_size", "steps", "policy_repo_id",
     "num_workers"}

\* Keyword arguments a library client passes.
ApiKwargs == {{"dataset_repo_id"}, {"dataset_repo_id", "policy_type", "steps"}}

\* Python's binding of keyword arguments to the signature.
Binds(kwargs) == kwargs \subseteq RunTrainingParams /\ RunTrainingRequired \subseteq kwargs

TrainingOkBelow2(exit_code) == exit_code < 2

\* if exit_code == 0: return True   else: return False
TrainingOk(exit_code) == exit_code = 0

\* Body of run_training: one streamed execute_command and the exit-code test.
RunTraining(x) ==
    /\ pc = "run"
    /\ ExecEffect(WorkloadCommand, x)
    /\ IF ExecRaise(x) # "none"
       THEN /\ trainResult' = "raised"
            /\ raised' = ExecRaise(x)
            /\ pc' = Resume("t_finally")
       ELSE /\ trainResult' = IF TrainingOk(x.exit_code) THEN "True" ELSE "False"
            /\ pc' = Resume("t_after_call")
            /\ UNCHANGED raised
    /\ UNCHANGED <<cmd, sideVars, describes, probeVars,
                   optSetup, nodeVars, tunnelVars, connVars, closeCalls,
                   setupIdx, setupResult, downloads, dlResult, awsVars, exitStatus,
                   apiVars>>

---------------------------------------------------------------------------
(* Text, as execute_command reads and captures it *)

\* A text is a sequence of characters; NL is the line terminator.
NL == "\n"
Whitespace == {" ", NL}

\* position of the first NL of text at or after i, 0 when there is none
RECURSIVE FirstNL(_, _)
FirstNL(text, i) ==
    IF i > Len(text) THEN 0
    ELSE IF text[i] = NL THEN i
    ELSE FirstNL(text, i + 1)

\* `for line in stdout`: the lines of a stream, each with its terminator
\* (the last one without, when the stream does not end on NL)
RECURSIVE ReadLines(_)
ReadLines(text) ==
    IF text = <<>> THEN <<>>
    ELSE LET k == FirstNL(text, 1) IN
         IF k = 0 THEN <<text>>
         ELSE <<SubSeq(text, 1, k)>> \o ReadLines(SubSeq(text, k + 1, Len(text)))

\* line.rstrip('\n')
RECURSIVE RStripNL(_)
RStripNL(line) ==
    IF line # <<>> /\ line[Len(line)] = NL
    THEN RStripNL(SubSeq(line, 1, Len(line) - 1))
    ELSE line

\* stdout_text += line + '\n'
CaptureLine(line) == line \o <<NL>>

\* the text captured from the lines read, in the order read
RECURSIVE Capture(_)
Capture(lines) ==
    IF lines = <<>> THEN <<>>
    ELSE CaptureLine(Head(lines)) \o Capture(Tail(lines))

\* str.strip()
RECURSIVE LStrip(_)
LStrip(text) ==
    IF text # <<>> /\ Head(text) \in Whitespace THEN LStrip(Tail(text)) ELSE text

RECURSIVE RStrip(_)
RStrip(text) ==
    IF text # <<>> /\ text[Len(text)] \in Whitespace
    THEN RStrip(SubSeq(text, 1, Len(text) - 1))
    ELSE text

Strip(text) == LStrip(RStrip(text))

---------------------------------------------------------------------------
(* execute_command at the level of its channel: the remote process writes  *)
(* lines to stdout and stderr, each stream of the channel buffers a        *)
(* bounded amount, and the two `for line in ...` loops read them.          *)

StreamLines == {<<"a", NL>>, <<"b", NL>>}
Writes == [stream : {"out", "err"}, line : StreamLines]

RECURSIVE SeqsUpTo(_, _)
SeqsUpTo(S, n) ==
    IF n = 0 THEN {<<>>}
    ELSE LET shorter == SeqsUpTo(S, n - 1) IN
         shorter \cup {Append(q, e) : q \in {r \in shorter : Len(r) = n - 1}, e \in S}

\* the process has written everything and exited: both streams are at EOF
\* once their buffers are drained
ProcessExited == written = Len(plan)

\* The remote process writes its next line; it blocks while the stream's
\* buffer is full.
ProcessWrites ==
    /\ cmd = "exec" /\ written < Len(plan)
    /\ LET w == plan[written + 1] IN
         IF w.stream = "out"
         THEN /\ Len(outBuf) < ChanCap
              /\ outBuf' = Append(outBuf, w.line)
              /\ UNCHANGED errBuf
         ELSE /\ Len(errBuf) < ChanCap
              /\ errBuf' = Append(errBuf, w.line)
              /\ UNCHANGED outBuf
    /\ written' = written + 1
    /\ UNCHANGED <<mainVars, plan, reading, stdout_text, stderr_text, printed>>

\* print(line_str) with line_str = line.rstrip('\n')
PrintedStdout(line) == RStripNL(line)

\* print(f"[ERROR] {line_str}")
PrintedStderr(line) == <<"[ERROR] ">> \o RStripNL(line)

\* for line in stdout: one iteration (stream_output is True)
ReadStdoutLine ==
    /\ cmd = "exec" /\ reading = "stdout" /\ outBuf # <<>>
    /\ stdout_text' = stdout_text \o CaptureLine(Head(outBuf))
    /\ printed' = Append(printed, PrintedStdout(Head(outBuf)))
    /\ outBuf' = Tail(outBuf)
    /\ UNCHANGED <<mainVars, plan, written, errBuf, reading, stderr_text>>

\* the stdout loop ends at EOF of stdout
StdoutEOF ==
    /\ cmd = "exec" /\ reading = "stdout" /\ outBuf = <<>> /\ ProcessExited
    /\ reading' = "stderr"
    /\ UNCHANGED <<mainVars, plan, written, outBuf, errBuf, stdout_text, stderr_text,
                   printed>>

\* for line in stderr: one iteration
ReadStderrLine ==
    /\ cmd = "exec" /\ reading = "stderr" /\ errBuf # <<>>
    /\ stderr_text' = stderr_text \o CaptureLine(Head(errBuf))
    /\ printed' = Append(printed, PrintedStderr(Head(errBuf)))
    /\ errBuf' = Tail(errBuf)
    /\ UNCHANGED <<mainVars, plan, written, outBuf, reading, stdout_text>>

\* the stderr loop ends at EOF; recv_exit_status() and the return follow
StderrEOF ==
    /\ cmd = "exec" /\ reading = "stderr" /\ errBuf = <<>> /\ ProcessExited
    /\ reading' = "returned"
    /\ UNCHANGED <<mainVars, plan, written, outBuf, errBuf, stdout_text, stderr_text,
                   printed>>

---------------------------------------------------------------------------
(* TrainingRunner.get_training_status *)

ProbeCommand == "ps_grep"

\* what the probe's stdout stream can carry
ProbeOutputs == {<<>>, <<" ", NL>>, <<"p", NL>>, <<"p">>}

IsRunningExitOnly(exit_code, out) == exit_code = 0

\* is_running = exit_code == 0 and stdout.strip() != ""
\* (stdout is the text execute_command captured from the stream `out`)
IsRunning(exit_code, out) ==
    exit_code = 0 /\ Strip(Capture(ReadLines(out))) # <<>>

\* Body of get_training_status: one execute_command and the test.
GetTrainingStatus(x, out) ==
    /\ pc = "probe"
    /\ ExecEffect(ProbeCommand, x)
    /\ IF ExecRaise(x) # "none"
       THEN /\ statusResult' = "raised"
            /\ raised' = ExecRaise(x)
            /\ UNCHANGED stdout
       ELSE /\ statusResult' = IF IsRunning(x.exit_code, out) THEN "True" ELSE "False"
            /\ stdout' = Capture(ReadLines(out))
            /\ UNCHANGED raised
    /\ pc' = Resume("done")
    /\ UNCHANGED <<cmd, sideVars, describes, optSetup, nodeVars, tunnelVars,
                   connVars, closeCalls, runnerVars, awsVars, exitStatus, apiVars>>

---------------------------------------------------------------------------
(* TrainingRunner.run_training: the command text it builds.  A text is a   *)
(* sequence of characters; the fixed fragments of the f-strings are single *)
(* elements.                                                               *)

DQ == "\""

\* position of the last "/" of text at or before i, 0 when there is none
RECURSIVE LastSlash(_, _)
LastSlash(text, i) ==
    IF i = 0 THEN 0
    ELSE IF text[i] = "/" THEN i
    ELSE LastSlash(text, i - 1)

\* dataset_repo_id.split('/')[-1]
SplitLast(text) == SubSeq(text, LastSlash(text, Len(text)) + 1, Len(text))

RSplitHeadEmpty(text) == SubSeq(text, 1, LastSlash(text, Len(text)) - 1)

\* dataset_repo_id.rsplit('/', 1)[0]
RSplitHead(text) ==
    LET k == LastSlash(text, Len(text)) IN
    IF k = 0 THEN text ELSE SubSeq(text, 1, k - 1)

\* the --policy.repo_id argument: the caller's when truthy, else a default
PolicyRepoArg(ds, pt, prid) ==
    IF prid # <<>>
    THEN <<"--policy.repo_id=">> \o prid
    ELSE <<"--policy.repo_id=">> \o RSplitHead(ds) \o <<"/">> \o pt \o <<"_">>
             \o SplitLast(ds)

\* if hf_token: train_args.append(f'--hf_token="{hf_token}"')
TokenArgs(tok) ==
    IF tok # <<>> THEN << <<"--hf_token=", DQ>> \o tok \o <<DQ>> >> ELSE <<>>

\* the list train_args
TrainArgs(ds, pt, bs, st, tok, prid) ==
    << <<"--dataset.repo_id=">> \o ds,
       <<"--policy.type=">> \o pt,
       <<"--batch_size=">> \o bs,
       <<"--steps=">> \o st,
       <<"--output_dir=outputs/train/">> \o pt \o <<"_">> \o SplitLast(ds),
       <<"--job_name=">> \o pt \o <<"_">> \o SplitLast(ds),
       <<"--policy.device=cuda">>,
       <<"--wandb.enable=false">>,
       <<"--dataset.video_backend=pyav">>,
       <<"--policy.push_to_hub=false">> >>
    \o TokenArgs(tok)
    \o << PolicyRepoArg(ds, pt, prid) >>

\* " ".join(train_args)
RECURSIVE Join(_)
Join(args) ==
    IF args = <<>> THEN <<>>
    ELSE IF Len(args) = 1 THEN args[1]
    ELSE args[1] \o <<" ">> \o Join(Tail(args))

\* f"source ~/venv_lerobot/bin/activate && lerobot-train {train_args_str}"
CommandText(args) ==
    <<"source", " ", "~/venv_lerobot/bin/activate", " ", "&&", " ",
      "lerobot-train", " ">> \o Join(args)

\* Values a caller can pass: plain ones, and ones that carry characters the
\* remote shell gives a meaning to.
DatasetIds ==
    {<<"u", "/", "d">>, <<"d">>, <<"o", "/", "u", "/", "d">>,
     <<"u", "/", "d", ";", "x">>, <<"u", "/", "d", " ", "x">>}
PolicyTypes == {<<"a">>, <<"a", ";", "x">>}
Digits == {<<"8">>, <<"3", "2">>}
HfTokens == {<<>>, <<"t">>, <<"t", DQ, ";", "x">>}
PolicyRepoIds == {<<>>, <<"u", "/", "p">>, <<"p", " ", "x">>}

\* run_training up to the execute_command call: the command text is built
BuildCommand ==
    /\ cmd = "build" /\ training_cmd = <<>>
    /\ train_args' = TrainArgs(dataset_repo_id, policy_type, batch_size, steps,
                               hf_token, policy_repo_id)
    /\ training_cmd' = CommandText(train_args')
    /\ UNCHANGED <<progVars, streamVars, xferVars, launchVars, dataset_repo_id, policy_type, batch_size,
                   steps, hf_token, policy_repo_id>>

---------------------------------------------------------------------------
(* SSHTunnel.download_file and TrainingRunner.download_checkpoint *)

\* download_file: "raised" when sftp is None, else True / False by sftp.get
DownloadFile(ok) ==
    IF sftp = "None" THEN "raised"
    ELSE IF sftp = "open" /\ ok THEN "True"
    ELSE "False"

\* download_checkpoint: the try block drops download_file's return value
DownloadCheckpoint(ok) == IF DownloadFile(ok) = "raised" THEN "False" ELSE "True"

---------------------------------------------------------------------------
(* The command wrapper: `except Exception as e: ... raise typer.Exit(1)` *)

\* The command ends with exception e leaving its body.
CommandEnds(e) ==
    /\ pc' = "done"
    /\ IF e = "none"
       THEN raised' = "none" /\ exitStatus' = 0
       ELSE IF IsSubclass(e, "Exception")
       THEN raised' = "Exit" /\ exitStatus' = ExitFailure
       ELSE raised' = e /\ UNCHANGED exitStatus

---------------------------------------------------------------------------
(* train command *)

NodeStatuses == {"pending", "running", "stopped"}
Addresses == {"None", "ip"}

\* client.login()
TrainLogin(ok) ==
    /\ cmd = "train" /\ pc = "t_login"
    /\ IF ok
       THEN pc' = "t_describe" /\ UNCHANGED <<raised, exitStatus>>
       ELSE CommandEnds("Exit")
    /\ UNCHANGED <<cmd, sideVars, describes, probeVars,
                   optSetup, nodeVars, tunnelVars, connVars, closeCalls,
                   execVars, runnerVars, awsVars, apiVars>>

NodeReadyStatusOnly(st, ip) == st = "running"

\* the two checks pass: status == "running" and ip_address is truthy
NodeReady(st, ip) == st = "running" /\ ip # "None"

\* get_instance_status, get_instance_ip (one describe_instances request
\* each), the two checks, SSHTunnel(...) and the call of ssh.connect() with
\* its defaults.
TrainDescribe(found, st, ip) ==
    /\ cmd = "train" /\ pc = "t_describe"
    /\ IF ~found
       THEN /\ describes' = describes + 1
            /\ CommandEnds("ClientError")
            /\ UNCHANGED <<nodeVars, connVars>>
       ELSE /\ describes' = describes + 2
            /\ status' = st
            /\ ip_address' = ip
            /\ IF ~NodeReady(st, ip)
               THEN CommandEnds("Exit") /\ UNCHANGED connVars
               ELSE /\ EnterConnect(DefaultMaxRetries, DefaultRetryDelay)
                    /\ UNCHANGED <<raised, exitStatus>>
    /\ UNCHANGED <<cmd, sideVars, probeVars, optSetup, tunnelVars, closeCalls,
                   execVars, runnerVars, awsVars, apiVars>>

\* if not ssh.connect(): raise typer.Exit(1); otherwise the try block is
\* entered: setup_instance when --setup, else run_training is called.
CallRunTraining(kwargs) ==
    IF Binds(kwargs)
    THEN pc' = "run" /\ UNCHANGED <<trainResult, raised>>
    ELSE /\ trainResult' = "raised"
         /\ raised' = "TypeError"
         /\ pc' = Resume("t_finally")

TrainAfterConnect ==
    /\ cmd = "train" /\ pc = "t_after_connect"
    /\ IF connectResult # "True"
       THEN CommandEnds("Exit") /\ UNCHANGED <<setupIdx, trainResult>>
       ELSE /\ IF optSetup
               THEN pc' = "setup" /\ setupIdx' = 1 /\ UNCHANGED <<trainResult, raised>>
               ELSE CallRunTraining(TrainKwargs) /\ UNCHANGED setupIdx
            /\ UNCHANGED exitStatus
    /\ UNCHANGED <<cmd, sideVars, describes, probeVars,
                   optSetup, nodeVars, tunnelVars, connVars, closeCalls,
                   execVars, setupResult, downloads, dlResult, awsVars, apiVars>>

\* Inside the try block, a runner call returned:
\*   setup_instance -> False: raise typer.Exit(1); True: call run_training
\*   run_training   -> False: raise typer.Exit(1); True: fall through
TrainAfterCall ==
    /\ cmd = "train" /\ pc = "t_after_call"
    /\ IF trainResult = "none"
       THEN IF setupResult = "False"
            THEN raised' = "Exit" /\ pc' = "t_finally" /\ UNCHANGED trainResult
            ELSE CallRunTraining(TrainKwargs)
       ELSE /\ raised' = IF trainResult = "False" THEN "Exit" ELSE "none"
            /\ pc' = "t_finally"
            /\ UNCHANGED trainResult
    /\ UNCHANGED <<cmd, sideVars, describes, probeVars,
                   optSetup, nodeVars, tunnelVars, connVars, closeCalls,
                   execVars, setupIdx, setupResult, downloads, dlResult, awsVars,
                   exitStatus, apiVars>>

\* finally: ssh.close(), then the exception (if any) reaches the wrapper.
TrainFinally ==
    /\ cmd = "train" /\ pc = "t_finally"
    /\ DoClose
    /\ CommandEnds(raised)
    /\ UNCHANGED <<cmd, sideVars, describes, probeVars,
                   optSetup, nodeVars, connVars, execVars, runnerVars, awsVars,
                   apiVars>>

---------------------------------------------------------------------------
(* logs command; optSetup holds its --follow option *)

TailCommand == "tail_log"

LogsLogin(ok) ==
    /\ cmd = "logs" /\ pc = "l_login"
    /\ IF ok
       THEN pc' = "l_describe" /\ UNCHANGED <<raised, exitStatus>>
       ELSE CommandEnds("Exit")
    /\ UNCHANGED <<cmd, sideVars, describes, probeVars, optSetup, nodeVars,
                   tunnelVars, connVars, closeCalls, execVars, runnerVars, awsVars,
                   apiVars>>

\* get_instance_ip, the address check, SSHTunnel(...) and ssh.connect()
LogsGetIp(found, ip) ==
    /\ cmd = "logs" /\ pc = "l_describe"
    /\ describes' = describes + 1
    /\ IF ~found
       THEN CommandEnds("ClientError") /\ UNCHANGED <<ip_address, connVars>>
       ELSE /\ ip_address' = ip
            /\ IF ip = "None"
               THEN CommandEnds("Exit") /\ UNCHANGED connVars
               ELSE /\ EnterConnect(DefaultMaxRetries, DefaultRetryDelay)
                    /\ UNCHANGED <<raised, exitStatus>>
    /\ UNCHANGED <<cmd, sideVars, probeVars, optSetup, status, tunnelVars,
                   closeCalls, execVars, runnerVars, awsVars, apiVars>>

\* if not ssh.connect(): raise typer.Exit(1); else the try block: the
\* follow loop or the single tail
LogsAfterConnect ==
    /\ cmd = "logs" /\ pc = "t_after_connect"
    /\ IF connectResult # "True"
       THEN CommandEnds("Exit")
       ELSE /\ pc' = IF optSetup THEN "l_poll" ELSE "l_once"
            /\ UNCHANGED <<raised, exitStatus>>
    /\ UNCHANGED <<cmd, sideVars, describes, probeVars, optSetup, nodeVars,
                   tunnelVars, connVars, closeCalls, execVars, runnerVars, awsVars,
                   apiVars>>

NextAfterPollRetries(exc) == IF exc = "none" THEN "l_echo" ELSE "l_poll"

\* where the follow loop goes after execute_command: on to the echo, or,
\* when it raised, out of the `while True` (the except clause encloses the
\* loop) to the finally block
NextAfterPoll(exc) == IF exc = "none" THEN "l_echo" ELSE "t_finally"

\* while True: ssh.execute_command(tail ...)
LogsPoll(x) ==
    /\ cmd = "logs" /\ pc = "l_poll"
    /\ Len(issued) < MaxPolls
    /\ ExecEffect(TailCommand, x)
    /\ pc' = NextAfterPoll(ExecRaise(x))
    /\ raised' = IF ExecRaise(x) = "KeyboardInterrupt" THEN "none" ELSE ExecRaise(x)
    /\ UNCHANGED <<cmd, sideVars, describes, probeVars, optSetup, nodeVars,
                   tunnelVars, connVars, closeCalls, runnerVars, awsVars, exitStatus,
                   apiVars>>

\* print(clear); typer.echo(stdout); time.sleep(2), which the user may
\* interrupt (except KeyboardInterrupt: "Log following stopped")
LogsEcho(intr) ==
    /\ cmd = "logs" /\ pc = "l_echo"
    /\ delivered' = delivered + 1
    /\ intr \/ Len(issued) < MaxPolls
    /\ pc' = IF intr THEN "t_finally" ELSE "l_poll"
    /\ UNCHANGED <<cmd, streamVars, buildVars, xferVars, launchVars, describes, probeVars, optSetup, nodeVars, tunnelVars,
                   connVars, closeCalls, execVars, runnerVars, awsVars, raised,
                   exitStatus, apiVars>>

\* not --follow: one execute_command and typer.echo(stdout)
LogsOnce(x) ==
    /\ cmd = "logs" /\ pc = "l_once"
    /\ ExecEffect(TailCommand, x)
    /\ raised' = ExecRaise(x)
    /\ delivered' = IF ExecRaise(x) = "none" THEN delivered + 1 ELSE delivered
    /\ pc' = "t_finally"
    /\ UNCHANGED <<cmd, streamVars, buildVars, xferVars, launchVars, describes, probeVars, optSetup, nodeVars, tunnelVars,
                   connVars, closeCalls, runnerVars, awsVars, exitStatus, apiVars>>

\* finally: ssh.close(), then the exception (if any) reaches the wrapper
LogsFinally ==
    /\ cmd = "logs" /\ pc = "t_finally"
    /\ DoClose
    /\ CommandEnds(raised)
    /\ UNCHANGED <<cmd, sideVars, describes, probeVars, optSetup, nodeVars,
                   connVars, execVars, runnerVars, awsVars, apiVars>>

---------------------------------------------------------------------------
(* terminate command *)

TermLogin(ok) ==
    /\ cmd = "terminate" /\ pc = "x_login"
    /\ IF ok
       THEN pc' = "x_terminate" /\ UNCHANGED <<raised, exitStatus>>
       ELSE CommandEnds("Exit")
    /\ UNCHANGED <<cmd, sideVars, describes, probeVars,
                   optSetup, nodeVars, tunnelVars, connVars, closeCalls,
                   execVars, runnerVars, awsVars, apiVars>>

TerminateInstanceSkipped(n) == n

\* EC2Manager.terminate_instance: one ec2.terminate_instances request
TerminateInstance(n) == n + 1

\* manager.terminate_instance(instance_id), then --cleanup or the end
TermTerminate(ok) ==
    /\ cmd = "terminate" /\ pc = "x_terminate"
    /\ termCalls' = TerminateInstance(termCalls)
    /\ IF ~ok
       THEN CommandEnds("ClientError")
       ELSE IF optSetup
       THEN pc' = "x_cleanup" /\ UNCHANGED <<raised, exitStatus>>
       ELSE CommandEnds("none")
    /\ UNCHANGED <<cmd, sideVars, describes, probeVars,
                   optSetup, nodeVars, tunnelVars, connVars, closeCalls,
                   execVars, runnerVars, cleanupLog, apiVars>>

DeleteCaughtNever(e) == FALSE

\* delete_security_group / delete_key_pair: except Exception -> return False
DeleteCaught(e) == IsSubclass(e, "Exception")

\* delete_security_group then delete_key_pair; each returns a bool
TermCleanup(sgOk, keyOk) ==
    /\ cmd = "terminate" /\ pc = "x_cleanup"
    /\ cleanupLog' = IF sgOk \/ DeleteCaught("ClientError")
                     THEN <<[what |-> "security_group", ok |-> sgOk],
                            [what |-> "key_pair", ok |-> keyOk]>>
                     ELSE <<[what |-> "security_group", ok |-> sgOk]>>
    /\ CommandEnds(IF (sgOk /\ keyOk) \/ DeleteCaught("ClientError")
                   THEN "none"
                   ELSE "ClientError")
    /\ UNCHANGED <<cmd, sideVars, describes, probeVars,
                   optSetup, nodeVars, tunnelVars, connVars, closeCalls,
                   execVars, runnerVars, termCalls, apiVars>>

---------------------------------------------------------------------------
(* A client of the library classes: calls methods of one SSHTunnel and of *)
(* the TrainingRunner built on it, in any order.                          *)

ApiCall(name) ==
    /\ cmd = "api" /\ pc = "idle"
    /\ calls < MaxCalls
    /\ calls' = calls + 1
    /\ lastCall' = name
    /\ raised' = "none"

\* The locals and the return value of an earlier call are gone when the
\* client makes its next call.
FreshConnect ==
    /\ max_retries' = 0
    /\ retry_delay' = 0
    /\ attempt' = 0
    /\ sleeps' = <<>>
    /\ outcomes' = <<>>
    /\ connectResult' = "none"

FreshRunner ==
    /\ setupIdx' = 1
    /\ setupResult' = "none"
    /\ trainResult' = "none"
    /\ dlResult' = "none"
    /\ lastResult' = NoResult
    /\ statusResult' = "none"
    /\ stdout' = <<>>

\* ssh.connect(n, d)
ApiConnect(n, d) ==
    /\ ApiCall("connect")
    /\ EnterConnect(n, d)
    /\ FreshRunner
    /\ UNCHANGED <<cmd, sideVars, describes,
                   optSetup, nodeVars, tunnelVars, closeCalls, issued,
                   warnings, downloads, awsVars, exitStatus>>

\* ssh.close()
ApiClose ==
    /\ ApiCall("close")
    /\ DoClose
    /\ FreshConnect
    /\ FreshRunner
    /\ UNCHANGED <<cmd, sideVars, describes,
                   pc, optSetup, nodeVars, issued, warnings, downloads,
                   awsVars, exitStatus>>

\* runner.setup_instance()
ApiSetup ==
    /\ ApiCall("setup_instance")
    /\ pc' = "setup"
    /\ FreshConnect
    /\ FreshRunner
    /\ UNCHANGED <<cmd, sideVars, describes,
                   optSetup, nodeVars, tunnelVars, closeCalls, issued,
                   warnings, downloads, awsVars, exitStatus>>

\* runner.run_training(**kwargs)
ApiRunTraining(kwargs) ==
    /\ ApiCall("run_training")
    /\ FreshConnect
    /\ setupIdx' = 1
    /\ setupResult' = "none"
    /\ dlResult' = "none"
    /\ lastResult' = NoResult
    /\ IF Binds(kwargs)
       THEN pc' = "run" /\ trainResult' = "none"
       ELSE pc' = "idle" /\ trainResult' = "raised"
    /\ statusResult' = "none"
    /\ stdout' = <<>>
    /\ UNCHANGED <<cmd, sideVars, describes,
                   optSetup, nodeVars, tunnelVars, closeCalls, issued,
                   warnings, downloads, awsVars, exitStatus>>

\* runner.download_checkpoint(remote_dir, local_dir)
ApiDownload(ok) ==
    /\ ApiCall("download_checkpoint")
    /\ FreshConnect
    /\ setupIdx' = 1
    /\ setupResult' = "none"
    /\ trainResult' = "none"
    /\ lastResult' = NoResult
    /\ downloads' = IF sftp = "None" THEN downloads
                    ELSE Append(downloads, DownloadFile(ok))
    /\ dlResult' = DownloadCheckpoint(ok)
    /\ statusResult' = "none"
    /\ stdout' = <<>>
    /\ UNCHANGED <<cmd, sideVars, describes,
                   pc, optSetup, nodeVars, tunnelVars, closeCalls, issued,
                   warnings, awsVars, exitStatus>>

\* runner.get_training_status()
ApiStatus ==
    /\ ApiCall("get_training_status")
    /\ pc' = "probe"
    /\ FreshConnect
    /\ FreshRunner
    /\ UNCHANGED <<cmd, sideVars, describes, optSetup, nodeVars, tunnelVars,
                   closeCalls, issued, warnings, downloads, awsVars, exitStatus>>

---------------------------------------------------------------------------
(* The launch command: AWSClient.login, EC2Manager.launch_instance with    *)
(* create_or_get_key_pair and create_or_get_security_group, run_instances. *)

\* --region values a user passes, and the regions EC2Manager.AMI_IDS knows
Regions == {"us-east-1", "us-west-2", "eu-west-1"}
AMI_IDS == [r \in {"us-east-1", "us-west-2"} |-> "ami-0068ee3283a678afd"]

\* str(e) of the errors a lookup meets, cut into fragments at the places the
\* code's markers can match
KeyNotFoundText ==
    <<"An error occurred (InvalidKeyPair.", "NotFound",
      ") when calling the DescribeKeyPairs operation: The key pair ",
      "does not exist">>
GroupNotFoundText ==
    <<"An error occurred (", "InvalidGroup.NotFound",
      ") when calling the DescribeSecurityGroups operation: The security group ",
      "does not exist", " in default VPC">>
UnauthorizedText ==
    <<"An error occurred (UnauthorizedOperation): You are not authorized to perform this operation.">>
TokenMissingText ==
    <<"Error loading SSO Token: Token for the start URL ", "does not exist">>

\* `marker in str(e)`
Contains(text, marker) == \E i \in 1..Len(text) : text[i] = marker

\* what describe_key_pairs / describe_security_groups can meet
KeyLookups ==
    {[res |-> "found", text |-> <<>>],
     [res |-> "not_found", text |-> KeyNotFoundText],
     [res |-> "error", text |-> UnauthorizedText],
     [res |-> "error", text |-> TokenMissingText]}
GroupLookups ==
    {[res |-> "found", text |-> <<>>],
     [res |-> "not_found", text |-> GroupNotFoundText],
     [res |-> "error", text |-> UnauthorizedText],
     [res |-> "error", text |-> TokenMissingText]}

\* the service answers found only for what exists, not-found only for what does not
Possible(lookup, exists) ==
    /\ lookup.res = "found" => exists
    /\ lookup.res = "not_found" => ~exists

\* if "NotFound" in str(e) or "does not exist" in str(e)
KeyMissing(text) == Contains(text, "NotFound") \/ Contains(text, "does not exist")

\* if "InvalidGroup.NotFound" in str(e) or "does not exist" in str(e)
GroupMissing(text) ==
    Contains(text, "InvalidGroup.NotFound") \/ Contains(text, "does not exist")

PropagatesNever(r) == FALSE

\* an exception of a step of launch_instance leaves launch_instance
Propagates(r) == r = "raised"

\* client.login() of the launch command
LaunchLogin(ok) ==
    /\ cmd = "launch" /\ pc = "n_login"
    /\ IF ok
       THEN pc' = "n_launch" /\ UNCHANGED <<raised, exitStatus>>
       ELSE CommandEnds("Exit")
    /\ UNCHANGED <<cmd, delivered, streamVars, buildVars, xferVars, launchVars,
                   describes, probeVars, optSetup, nodeVars, tunnelVars, connVars,
                   closeCalls, execVars, runnerVars, awsVars, apiVars>>

\* launch_instance: the default image of the region
LaunchInstance(region) ==
    /\ cmd = "launch" /\ pc = "n_launch"
    /\ IF region \in DOMAIN AMI_IDS
       THEN pc' = "n_key" /\ UNCHANGED <<raised, exitStatus>>
       ELSE CommandEnds("ValueError")
    /\ UNCHANGED <<cmd, delivered, streamVars, buildVars, xferVars, launchVars,
                   describes, probeVars, optSetup, nodeVars, tunnelVars, connVars,
                   closeCalls, execVars, runnerVars, awsVars, apiVars>>

\* self.aws_client.create_or_get_key_pair(key_name)
EnsureKey(lookup, createOk, writeOk) ==
    /\ cmd = "launch" /\ pc = "n_key"
    /\ Possible(lookup, keyRegistered)
    /\ keyLookup' = lookup.res
    /\ IF lookup.res = "found"
       THEN /\ ec2Calls' = ec2Calls \o <<"describe_key_pairs">>
            /\ keyPath' = "path"
            /\ UNCHANGED <<keyRegistered, keyCreates, keyFile>>
       ELSE IF KeyMissing(lookup.text)
       THEN /\ ec2Calls' = ec2Calls \o <<"describe_key_pairs", "create_key_pair">>
            /\ IF createOk /\ ~keyRegistered
               THEN /\ keyRegistered' = TRUE
                    /\ keyCreates' = keyCreates + 1
                    /\ IF writeOk
                       THEN keyFile' = "match" /\ keyPath' = "path"
                       ELSE keyPath' = "raised" /\ UNCHANGED keyFile
               ELSE /\ keyPath' = "raised"
                    /\ UNCHANGED <<keyRegistered, keyCreates, keyFile>>
       ELSE /\ ec2Calls' = ec2Calls \o <<"describe_key_pairs">>
            /\ keyPath' = "raised"
            /\ UNCHANGED <<keyRegistered, keyCreates, keyFile>>
    /\ IF Propagates(keyPath')
       THEN CommandEnds(IF lookup.res = "error" /\ ~KeyMissing(lookup.text)
                        THEN "RuntimeError"
                        ELSE IF createOk /\ ~keyRegistered THEN "OSError"
                        ELSE "ClientError")
       ELSE pc' = "n_group" /\ UNCHANGED <<raised, exitStatus>>
    /\ UNCHANGED <<cmd, delivered, streamVars, buildVars, xferVars, sgExists, sgSsh,
                   sgCreates, nodes, launches, sgLookup, sgId, instance_id,
                   describes, probeVars, optSetup, nodeVars, tunnelVars, connVars,
                   closeCalls, execVars, runnerVars, awsVars, apiVars>>

\* sg_id = self.aws_client.create_or_get_security_group(security_group_name)
EnsureGroup(lookup, createOk, authOk) ==
    /\ cmd = "launch" /\ pc = "n_group"
    /\ Possible(lookup, sgExists)
    /\ sgLookup' = lookup.res
    /\ IF lookup.res = "found"
       THEN /\ ec2Calls' = ec2Calls \o <<"describe_security_groups">>
            /\ sgId' = "sg"
            /\ UNCHANGED <<sgExists, sgCreates, sgSsh>>
       ELSE IF GroupMissing(lookup.text)
       THEN IF createOk /\ ~sgExists
            THEN /\ ec2Calls' = ec2Calls \o <<"describe_security_groups",
                                              "create_security_group",
                                              "authorize_security_group_ingress">>
                 /\ sgExists' = TRUE
                 /\ sgCreates' = sgCreates + 1
                 /\ IF authOk
                    THEN sgSsh' = TRUE /\ sgId' = "sg"
                    ELSE sgId' = "raised" /\ UNCHANGED sgSsh
            ELSE /\ ec2Calls' = ec2Calls \o <<"describe_security_groups",
                                              "create_security_group">>
                 /\ sgId' = "raised"
                 /\ UNCHANGED <<sgExists, sgCreates, sgSsh>>
       ELSE /\ ec2Calls' = ec2Calls \o <<"describe_security_groups">>
            /\ sgId' = "raised"
            /\ UNCHANGED <<sgExists, sgCreates, sgSsh>>
    /\ IF Propagates(sgId')
       THEN CommandEnds("RuntimeError")
       ELSE pc' = "n_run" /\ UNCHANGED <<raised, exitStatus>>
    /\ UNCHANGED <<cmd, delivered, streamVars, buildVars, xferVars, keyRegistered,
                   keyFile, keyCreates, nodes, launches, keyLookup, keyPath,
                   instance_id, describes, probeVars, optSetup, nodeVars, tunnelVars,
                   connVars, closeCalls, execVars, runnerVars, awsVars, apiVars>>

\* response = self.ec2.run_instances(...); return instance_id
RunInstances(ok) ==
    /\ cmd = "launch" /\ pc = "n_run"
    /\ ec2Calls' = Append(ec2Calls, "run_instances")
    /\ IF ok
       THEN /\ nodes' = nodes + 1
            /\ instance_id' = "i-new"
            /\ CommandEnds("none")
       ELSE /\ CommandEnds("ClientError")
            /\ UNCHANGED <<nodes, instance_id>>
    /\ UNCHANGED <<cmd, delivered, streamVars, buildVars, xferVars, keyRegistered,
                   keyFile, sgExists, sgSsh, keyCreates, sgCreates, launches,
                   keyLookup, sgLookup, keyPath, sgId, describes, probeVars, optSetup,
                   nodeVars, tunnelVars, connVars, closeCalls, execVars, runnerVars,
                   awsVars, apiVars>>

\* the user runs the launch command again on the same account
LaunchAgain ==
    /\ cmd = "launch" /\ pc = "done"
    /\ launches < MaxLaunches
    /\ launches' = launches + 1
    /\ pc' = "n_login"
    /\ raised' = "none"
    /\ exitStatus' = -1
    /\ keyLookup' = "none"
    /\ sgLookup' = "none"
    /\ keyPath' = "none"
    /\ sgId' = "none"
    /\ ec2Calls' = <<>>
    /\ instance_id' = "none"
    /\ UNCHANGED <<cmd, delivered, streamVars, buildVars, xferVars, accountVars,
                   describes, probeVars, optSetup, nodeVars, tunnelVars, connVars,
                   closeCalls, execVars, runnerVars, awsVars, apiVars>>

(* A client of SSHTunnel alone: connect, execute_command, upload_file,     *)
(* download_file and close in any order.                                   *)

UserCommand == "user_command"

\* a call that runs to its end in one step
TunnelCall(name) ==
    /\ cmd = "api" /\ pc = "idle"
    /\ calls < MaxCalls
    /\ calls' = calls + 1
    /\ lastCall' = name
    /\ FreshConnect

\* ssh.execute_command(command)
TunnelExecute(x) ==
    /\ TunnelCall("execute_command")
    /\ ExecEffect(UserCommand, x)
    /\ raised' = ExecRaise(x)
    /\ xferResult' = "none"
    /\ UNCHANGED <<cmd, pc, streamVars, buildVars, launchVars, delivered, uploads, describes,
                   probeVars, optSetup, nodeVars, tunnelVars, closeCalls, runnerVars,
                   awsVars, exitStatus>>

UploadFileAlwaysTrue(ok) == IF sftp = "None" THEN "raised" ELSE "True"

\* upload_file: "raised" when sftp is None, else True / False by sftp.put
UploadFile(ok) ==
    IF sftp = "None" THEN "raised"
    ELSE IF sftp = "open" /\ ok THEN "True"
    ELSE "False"

\* ssh.upload_file(local_path, remote_path)
TunnelUpload(ok) ==
    /\ TunnelCall("upload_file")
    /\ xferResult' = UploadFile(ok)
    /\ raised' = IF sftp = "None" THEN "RuntimeError" ELSE "none"
    /\ uploads' = IF sftp = "None" THEN uploads
                  ELSE Append(uploads, sftp = "open" /\ ok)
    /\ UNCHANGED <<cmd, pc, streamVars, buildVars, launchVars, delivered, describes, probeVars,
                   optSetup, nodeVars, tunnelVars, closeCalls, execVars, runnerVars,
                   awsVars, exitStatus>>

\* ssh.download_file(remote_path, local_path)
TunnelDownload(ok) ==
    /\ TunnelCall("download_file")
    /\ xferResult' = DownloadFile(ok)
    /\ raised' = IF sftp = "None" THEN "RuntimeError" ELSE "none"
    /\ downloads' = IF sftp = "None" THEN downloads
                    ELSE Append(downloads, IF sftp = "open" /\ ok THEN "True" ELSE "False")
    /\ UNCHANGED <<cmd, pc, streamVars, buildVars, launchVars, delivered, uploads, describes,
                   probeVars, optSetup, nodeVars, tunnelVars, closeCalls, execVars,
                   setupIdx, setupResult, trainResult, dlResult, awsVars,
                   exitStatus>>

-----
(* Specification *)

\* every field and local as construction leaves it
Constructed ==
    /\ status = "unknown"
    /\ ip_address = "None"
    /\ client = "None"
    /\ sftp = "None"
    /\ leaked = 0
    /\ max_retries = 0
    /\ retry_delay = 0
    /\ attempt = 0
    /\ sleeps = <<>>
    /\ outcomes = <<>>
    /\ connectResult = "none"
    /\ closeCalls = 0
    /\ issued = <<>>
    /\ lastResult = NoResult
    /\ warnings = <<>>
    /\ setupIdx = 1
    /\ setupResult = "none"
    /\ trainResult = "none"
    /\ downloads = <<>>
    /\ dlResult = "none"
    /\ termCalls = 0
    /\ cleanupLog = <<>>
    /\ raised = "none"
    /\ exitStatus = -1
    /\ calls = 0
    /\ lastCall = "none"
    /\ describes = 0
    /\ statusResult = "none"
    /\ stdout = <<>>
    /\ delivered = 0
    /\ uploads = <<>>
    /\ xferResult = "none"

\* no command is being streamed
NoStream ==
    /\ plan = <<>>
    /\ written = 0
    /\ outBuf = <<>>
    /\ errBuf = <<>>
    /\ reading = "returned"
    /\ stdout_text = <<>>
    /\ stderr_text = <<>>
    /\ printed = <<>>

\* a fresh account and key directory; n runs of the launch command started
NoLaunch(n) ==
    /\ keyRegistered = FALSE
    /\ keyFile = "absent"
    /\ sgExists = FALSE
    /\ sgSsh = FALSE
    /\ keyCreates = 0
    /\ sgCreates = 0
    /\ nodes = 0
    /\ launches = n
    /\ keyLookup = "none"
    /\ sgLookup = "none"
    /\ keyPath = "none"
    /\ sgId = "none"
    /\ ec2Calls = <<>>
    /\ instance_id = "none"

\* no command text is being built
NoBuild ==
    /\ dataset_repo_id = <<>>
    /\ policy_type = <<>>
    /\ batch_size = <<>>
    /\ steps = <<>>
    /\ hf_token = <<>>
    /\ policy_repo_id = <<>>
    /\ train_args = <<>>
    /\ training_cmd = <<>>

Init ==
    /\ cmd \in {"train", "terminate", "logs", "api"}
    /\ pc = CASE cmd = "train" -> "t_login"
              [] cmd = "terminate" -> "x_login"
              [] cmd = "logs" -> "l_login"
              [] OTHER -> "idle"
    /\ optSetup \in (IF cmd = "api" THEN {FALSE} ELSE BOOLEAN)
    /\ Constructed
    /\ NoStream
    /\ NoBuild
    /\ NoLaunch(0)

Next ==
    \/ \E o \in ConnectOutcomes : ConnectAttempt(o)
    \/ ConnectExhausted
    \/ \E x \in ExecOutcomes : SetupStep(x)
    \/ \E x \in ExecOutcomes : RunTraining(x)
    \/ \E ok \in BOOLEAN : TrainLogin(ok)
    \/ \E found \in BOOLEAN, st \in NodeStatuses, ip \in Addresses :
           TrainDescribe(found, st, ip)
    \/ TrainAfterConnect
    \/ TrainAfterCall
    \/ TrainFinally
    \/ \E ok \in BOOLEAN : TermLogin(ok)
    \/ \E ok \in BOOLEAN : TermTerminate(ok)
    \/ \E sgOk \in BOOLEAN, keyOk \in BOOLEAN : TermCleanup(sgOk, keyOk)
    \/ \E ok \in BOOLEAN : LogsLogin(ok)
    \/ \E found \in BOOLEAN, ip \in Addresses : LogsGetIp(found, ip)
    \/ LogsAfterConnect
    \/ \E x \in ExecOutcomes : LogsPoll(x)
    \/ \E intr \in BOOLEAN : LogsEcho(intr)
    \/ \E x \in ExecOutcomes : LogsOnce(x)
    \/ LogsFinally
    \/ \E n \in 0..MaxRetriesBound, d \in Delays : ApiConnect(n, d)
    \/ ApiClose
    \/ ApiSetup
    \/ \E kwargs \in ApiKwargs \cup {TrainKwargs} : ApiRunTraining(kwargs)
    \/ \E ok \in BOOLEAN : ApiDownload(ok)
    \/ ApiStatus
    \/ \E x \in ExecOutcomes, out \in ProbeOutputs : GetTrainingStatus(x, out)

Spec == Init /\ [][Next]_vars

\* One SSHTunnel and the calls a client makes on it.
InitTunnel == Init /\ cmd = "api"

NextTunnel ==
    \/ \E o \in ConnectOutcomes : ConnectAttempt(o)
    \/ ConnectExhausted
    \/ \E n \in -1..MaxRetriesBound, d \in Delays : ApiConnect(n, d)
    \/ ApiClose
    \/ \E x \in ExecOutcomes : TunnelExecute(x)
    \/ \E ok \in BOOLEAN : TunnelUpload(ok)
    \/ \E ok \in BOOLEAN : TunnelDownload(ok)

SpecTunnel == InitTunnel /\ [][NextTunnel]_vars

\* One execute_command call on a connected session, for every process that
\* writes up to MaxWrites lines.
InitStream ==
    /\ cmd = "exec"
    /\ pc = "exec"
    /\ optSetup = FALSE
    /\ Constructed
    /\ NoBuild
    /\ NoLaunch(0)
    /\ plan \in SeqsUpTo(Writes, MaxWrites)
    /\ written = 0
    /\ outBuf = <<>>
    /\ errBuf = <<>>
    /\ reading = "stdout"
    /\ stdout_text = <<>>
    /\ stderr_text = <<>>
    /\ printed = <<>>

NextStream ==
    \/ ProcessWrites
    \/ ReadStdoutLine
    \/ StdoutEOF
    \/ ReadStderrLine
    \/ StderrEOF

\* The launch command, run up to MaxLaunches times on one account.
InitLaunch ==
    /\ cmd = "launch"
    /\ pc = "n_login"
    /\ optSetup = FALSE
    /\ Constructed
    /\ NoStream
    /\ NoBuild
    /\ NoLaunch(1)

NextLaunch ==
    \/ \E ok \in BOOLEAN : LaunchLogin(ok)
    \/ \E region \in Regions : LaunchInstance(region)
    \/ \E lookup \in KeyLookups, createOk \in BOOLEAN, writeOk \in BOOLEAN :
           EnsureKey(lookup, createOk, writeOk)
    \/ \E lookup \in GroupLookups, createOk \in BOOLEAN, authOk \in BOOLEAN :
           EnsureGroup(lookup, createOk, authOk)
    \/ \E ok \in BOOLEAN : RunInstances(ok)
    \/ LaunchAgain

SpecLaunch == InitLaunch /\ [][NextLaunch]_vars

\* The process and the reader each take their step when they can.
SpecStream == InitStream /\ [][NextStream]_vars /\ WF_vars(NextStream)

\* One run_training call, for every combination of argument values.
InitBuild ==
    /\ cmd = "build"
    /\ pc = "run"
    /\ optSetup = FALSE
    /\ Constructed
    /\ NoStream
    /\ NoLaunch(0)
    /\ dataset_repo_id \in DatasetIds
    /\ policy_type \in PolicyTypes
    /\ batch_size \in Digits
    /\ steps \in Digits
    /\ hf_token \in HfTokens
    /\ policy_repo_id \in PolicyRepoIds
    /\ train_args = <<>>
    /\ training_cmd = <<>>

NextBuild == BuildCommand

SpecBuild == InitBuild /\ [][NextBuild]_vars

---------------------------------------------------------------------------
(* Properties *)

Last(seq) == seq[Len(seq)]
AllTransient(seq) == \A i \in 1..Len(seq) : seq[i] \in Transient
Prefix(seq, n) == SubSeq(seq, 1, n)

\* C1 (as stated): with max_retries = N >= 1, after N transient failures
\* connect is still going to make attempt N+1, having slept N times.
C1_RetriesAfterNFailures ==
    (/\ max_retries >= 1
     /\ Len(outcomes) >= max_retries
     /\ AllTransient(Prefix(outcomes, max_retries)))
    => (connectResult # "False" /\ Len(sleeps) = max_retries)

\* C1 (amended): with max_retries = N >= 1, N-1 transient failures followed
\* by a successful attempt N return True after exactly N-1 delays, and N
\* transient failures return False after exactly N-1 delays, with no
\* attempt N+1.
C1_SucceedsOnAttemptN ==
    (/\ max_retries >= 1
     /\ Len(outcomes) = max_retries
     /\ AllTransient(Prefix(outcomes, max_retries - 1)))
    => /\ attempt = max_retries
       /\ Last(outcomes) = "ok"
            => connectResult = "True" /\ Len(sleeps) = max_retries - 1
       /\ Last(outcomes) \in Transient
            => connectResult = "False" /\ Len(sleeps) = max_retries - 1

C1_Witness ==
    /\ max_retries >= 2
    /\ Len(outcomes) = max_retries
    /\ AllTransient(Prefix(outcomes, max_retries - 1))
    /\ Last(outcomes) = "ok"
    /\ connectResult = "True"

\* C2: an authentication failure on attempt 1 is not retried: no second
\* attempt, no retry delay, connect has failed at once.
C2_AuthNeverRetried ==
    (Len(outcomes) >= 1 /\ outcomes[1] = "auth")
    => /\ Len(outcomes) = 1
       /\ sleeps = <<>>
       /\ connectResult \in {"False", "raised"}

\* C3: connect(max_retries = N) makes at most N attempts, sleeps the fixed
\* retry_delay between two attempts and never after the last, returns True
\* at the first successful attempt, and returns False without raising after
\* N transient failures and N-1 sleeps.
C3_BoundedFixedDelayRetry ==
    /\ attempt = Len(outcomes)
    /\ attempt <= IF max_retries > 0 THEN max_retries ELSE 0
    /\ \A i \in 1..Len(sleeps) : sleeps[i] = retry_delay
    /\ Len(sleeps) = IF connectResult = "none" \/ attempt = 0
                     THEN attempt ELSE attempt - 1
    /\ \A i \in 1..Len(outcomes) :
          outcomes[i] = "ok" => i = Len(outcomes) /\ connectResult = "True"
    /\ connectResult = "True" => attempt >= 1 /\ Last(outcomes) = "ok"
    /\ (max_retries >= 1 /\ Len(outcomes) = max_retries /\ AllTransient(outcomes))
          => /\ connectResult = "False"
             /\ raised \in {"none", "Exit"}
             /\ Len(sleeps) = max_retries - 1

C3_Witness ==
    /\ max_retries >= 2
    /\ Len(outcomes) = max_retries
    /\ AllTransient(outcomes)
    /\ connectResult = "False"
    /\ Len(sleeps) = max_retries - 1

TrainDone == cmd = "train" /\ pc = "done"
Range(seq) == {seq[i] : i \in 1..Len(seq)}

\* C4 (as stated): every exit path of a train run that reached the node
\* has invoked terminateNode exactly once.
C4_TeardownOnEveryExit == (TrainDone /\ connectResult # "none") => termCalls = 1

\* C4 (amended): the train command never invokes terminateNode, on any exit
\* path; teardown is the separate terminate command, which invokes it at
\* most once, and exactly once on every run that ends with status 0.
C4_TeardownOnlyByTerminate ==
    /\ cmd \in {"train", "api"} => termCalls = 0
    /\ termCalls <= 1
    /\ (cmd = "terminate" /\ pc = "done" /\ exitStatus = 0) => termCalls = 1
    /\ (cmd = "terminate" /\ pc = "x_cleanup") => termCalls = 1

C4_Witness ==
    /\ TrainDone
    /\ closeCalls = 1
    /\ setupResult = "False"
    /\ exitStatus = ExitFailure
    /\ termCalls = 0

\* C5: when the train command ends, a session it opened (connect was
\* called on it) has been closed exactly once.
C5_SessionClosedOnEveryExit ==
    (TrainDone /\ client # "None") => closeCalls = 1

\* C6: close never raises and releases the command channel and the
\* file-transfer sub-channel, and a close that directly follows a close
\* leaves the session as the first one left it.
C6_CloseIdempotent ==
    [][(lastCall' = "close" /\ calls' = calls + 1)
         => /\ raised' = "none"
            /\ client' # "connected"
            /\ sftp' # "open"
            /\ lastCall = "close"
                 => client' = client /\ sftp' = sftp /\ leaked' = leaked]_vars

C6_Witness ==
    /\ lastCall = "close"
    /\ closeCalls >= 2
    /\ client = "closed"
    /\ sftp = "closed"

\* What a train run issues: the setup commands in order (with --setup),
\* then the workload command.
TrainPlan == (IF optSetup THEN SetupCommands ELSE <<>>) \o <<WorkloadCommand>>

SetupOrderAndAbort ==
    /\ cmd = "train" =>
          /\ Len(issued) <= Len(TrainPlan)
          /\ issued = Prefix(TrainPlan, Len(issued))
          /\ warnings # <<>> =>
                /\ warnings = <<lastResult.exit_code>>
                /\ Len(issued) <= Len(SetupCommands) => setupResult = "False"
    /\ (cmd = "train" /\ setupResult = "False") =>
          /\ lastResult.exit_code \in ExitCodes \ {0}
          /\ issued = Prefix(SetupCommands, setupIdx)
          /\ trainResult = "none"

\* C7 (as stated): setup commands run in order, the first nonzero exit
\* aborts setup (no later setup command, no workload command), and the
\* failure is reported with that command's exit code.
C7_SetupFailureCarriesExitCode ==
    /\ SetupOrderAndAbort
    /\ (TrainDone /\ setupResult = "False") => exitStatus = lastResult.exit_code

\* C7 (amended): setup commands run in order and the first nonzero exit
\* aborts setup (no later setup command, no workload command);
\* setup_instance returns False and train exits with status 1 whatever the
\* command's exit code, which only execute_command's warning records.
C7_SetupFailureAborts ==
    /\ SetupOrderAndAbort
    /\ (TrainDone /\ setupResult = "False") =>
          /\ exitStatus = ExitFailure
          /\ raised = "Exit"
          /\ warnings = <<lastResult.exit_code>>

C7_Witness ==
    /\ TrainDone
    /\ setupResult = "False"
    /\ issued = <<"apt_update", "apt_install">>
    /\ lastResult.exit_code = 127
    /\ exitStatus = ExitFailure

\* The state in which a runner call has just handed its result back.
Returned(name) ==
    \/ cmd = "api" /\ pc = "idle" /\ lastCall = name
    \/ cmd = "train" /\ pc = "t_after_call"

\* C8 (as stated): a checked command that exits nonzero raises CommandError.
C8_NonzeroRaisesCommandError ==
    (Returned("setup_instance") /\ lastResult.exit_code > 0)
    => raised = "CommandError"

\* C8 (amended): execute_command never raises on account of the exit code:
\* it returns exactly the code the command exited with and logs a warning
\* for a nonzero one; the checked use in setup_instance goes on after exit
\* code 0 and returns False, without raising, after any nonzero code.
C8_NonzeroReturnsFalse ==
    Returned("setup_instance") =>
        /\ setupResult = "True" =>
              /\ lastResult.exit_code = 0
              /\ raised = "none"
        /\ setupResult = "False" =>
              /\ lastResult.exit_code \in ExitCodes \ {0}
              /\ warnings # <<>> /\ Last(warnings) = lastResult.exit_code
              /\ raised = "none"
        /\ setupResult = "raised" =>
              /\ raised \in {"RuntimeError", "SSHException", "KeyboardInterrupt"}
              /\ lastResult.exit_code <= 0
        /\ lastResult.exit_code > 0 => setupResult = "False"

C8_Witness ==
    /\ Returned("setup_instance")
    /\ setupResult = "False"
    /\ lastResult.exit_code = 127
    /\ raised = "none"

\* C9: a train run whose session opened and whose setup succeeded (or was
\* skipped) has issued the workload command by the time it ends.
C9_WorkloadIssued ==
    (/\ TrainDone
     /\ connectResult = "True"
     /\ optSetup => setupResult = "True")
    => WorkloadCommand \in Range(issued)

C11_DownloadTruthful ==
    (Returned("download_checkpoint") /\ lastCall = "download_checkpoint") =>
        /\ dlResult # "raised"
        /\ dlResult = "True" => (downloads # <<>> /\ Last(downloads) = "True")

\* C15 (as stated): when the node is not reported running with an address,
\* train keeps polling describeNode and ends with ProvisioningTimeout.
C15_PolledUntilTimeout ==
    (TrainDone /\ describes >= 2 /\ ~(status = "running" /\ ip_address # "None"))
    => (describes > 2 /\ raised = "ProvisioningTimeout")

\* C15 (amended): train samples the node once (one get_instance_status and
\* one get_instance_ip request, no polling, no timeout); when the sample is
\* not "running" with an address train exits with status 1 at once, and a
\* session open is attempted only after the sample was running with an
\* address.
C15_SingleSampleGatesConnect ==
    cmd = "train" =>
        /\ describes <= 2
        /\ (pc = "connect" \/ attempt > 0 \/ client # "None")
              => (describes = 2 /\ status = "running" /\ ip_address # "None")
        /\ (TrainDone /\ describes = 2
                /\ ~(status = "running" /\ ip_address # "None"))
              => /\ exitStatus = ExitFailure
                 /\ raised = "Exit"
                 /\ attempt = 0
                 /\ client = "None"

C15_Witness ==
    /\ TrainDone
    /\ describes = 2
    /\ status = "running"
    /\ ip_address = "None"
    /\ exitStatus = ExitFailure
    /\ attempt = 0

\* C18: every get_training_status call issues one fresh process-presence
\* probe and changes nothing else of the session or the runner; the sample
\* says is_running exactly when that probe exited 0 with output that is not
\* blank.
C18_FreshProbePerCall ==
    /\ [](Returned("get_training_status") /\ statusResult \in {"True", "False"}
            => /\ issued # <<>> /\ Last(issued) = ProbeCommand
               /\ statusResult = "True"
                     <=> /\ lastResult.exit_code = 0
                         /\ \E i \in 1..Len(stdout) : stdout[i] \notin Whitespace)
    /\ [][pc = "probe"
            => /\ UNCHANGED <<tunnelVars, connVars, closeCalls, runnerVars,
                              awsVars, describes, exitStatus, nodeVars>>
               /\ statusResult' # "raised" => issued' = Append(issued, ProbeCommand)
               /\ issued' \in {issued, Append(issued, ProbeCommand)}]_vars

C18_Witness ==
    /\ Returned("get_training_status")
    /\ calls = 3
    /\ statusResult = "False"
    /\ lastResult.exit_code = 0
    /\ stdout # <<>>
    /\ Len(issued) = 2 /\ issued[1] = ProbeCommand /\ issued[2] = ProbeCommand

InterruptedExec ==
    \/ pc \in {"setup", "run", "probe", "l_once"} /\ raised' = "KeyboardInterrupt"
    \/ cmd = "logs" /\ pc = "l_poll" /\ pc' = "t_finally"

\* C14: a caller interrupt during an in-flight execute_command sends the
\* remote host nothing but the command itself (no kill) and leaves the
\* session connected, its channels untouched and unclosed, so that a later
\* command can be issued on it.
C14_InterruptKeepsSession ==
    [][InterruptedExec
         => /\ client = "connected" /\ client' = "connected"
            /\ sftp' = sftp
            /\ closeCalls' = closeCalls
            /\ Len(issued') = Len(issued) + 1
            /\ SubSeq(issued', 1, Len(issued)) = issued
            /\ Last(issued') \in Range(SetupCommands)
                                   \cup {WorkloadCommand, ProbeCommand, TailCommand}]_vars

\* an interrupted setup_instance, then a workload command issued and run to
\* its end on the same session
C14_Witness ==
    /\ cmd = "api"
    /\ issued = <<"apt_update", WorkloadCommand>>
    /\ warnings = <<>>
    /\ Returned("run_training")
    /\ trainResult = "True"
    /\ closeCalls = 0

\* C19: while logs are followed at most one poll is outstanding: a poll is
\* issued only when every earlier poll's result has been echoed, and once
\* the loop was left (the user's interrupt) no poll is issued any more.
C19_OnePollOutstanding ==
    /\ [](cmd = "logs" => Len(issued) - delivered \in {0, 1})
    /\ [][cmd = "logs"
            => /\ issued' # issued => (delivered = Len(issued) /\ pc \in {"l_poll", "l_once"})
               /\ pc \in {"t_finally", "done"} => issued' = issued]_vars

\* two polls issued, the first echoed, the second interrupted in flight
C19_Witness ==
    /\ cmd = "logs" /\ optSetup
    /\ pc = "done"
    /\ issued = <<TailCommand, TailCommand>>
    /\ delivered = 1
    /\ closeCalls = 1
    /\ exitStatus = 0

\* the lines the process wrote to one stream, in order
RECURSIVE LinesWritten(_, _)
LinesWritten(writes, stream) ==
    IF writes = <<>> THEN <<>>
    ELSE (IF Head(writes).stream = stream THEN <<Head(writes).line>> ELSE <<>>)
             \o LinesWritten(Tail(writes), stream)

\* C12: when execute_command has returned, the captured stdout text and the
\* captured stderr text hold exactly the lines the process wrote to that
\* stream, once each and in order, and the observer was shown exactly those
\* lines, each stream in order.
C12_LinesExactlyOnceInOrder ==
    (cmd = "exec" /\ reading = "returned") =>
        /\ ReadLines(stdout_text) = LinesWritten(plan, "out")
        /\ ReadLines(stderr_text) = LinesWritten(plan, "err")
        /\ Len(printed) = Len(plan)

\* C13: execute_command eventually returns, whatever the process writes.
C13_ExecuteReturns == <>(cmd = "exec" => reading = "returned")

\* How the remote shell splits a command text: the number of words of each
\* command of the list.  Unquoted blanks end a word, unquoted ";" and "&&"
\* end a command, a double quote opens or closes a quoted stretch.
ShellShape(text) ==
    LET \* position i lies inside a quoted stretch
        Q(i) == Cardinality({j \in 1..(i - 1) : text[j] = DQ}) % 2 = 1
        \* position i holds an unquoted blank or separator
        Brk(i) == text[i] # DQ /\ ~Q(i) /\ text[i] \in {" ", ";", "&&"}
        Sep(i) == Brk(i) /\ text[i] # " "
        Starts == {i \in 1..Len(text) : ~Brk(i) /\ (i = 1 \/ Brk(i - 1))}
        Cmd(i) == Cardinality({j \in 1..i : Sep(j)}) + 1
        n == Cardinality({j \in 1..Len(text) : Sep(j)}) + 1
    IN  [k \in 1..n |-> Cardinality({i \in Starts : Cmd(i) = k})]

\* a value without any character the shell gives a meaning to
PlainValue(v) == IF v = <<>> THEN <<>> ELSE <<"v">>

\* C16: the command text built from any field values has the shell
\* structure of the one built from plain values (same commands, same
\* number of arguments in each).
C16_ValuesQuoted ==
    training_cmd # <<>> =>
        ShellShape(training_cmd)
          = ShellShape(CommandText(TrainArgs(<<"u", "/", "d">>, <<"v">>, <<"1">>,
                                             <<"1">>, PlainValue(hf_token),
                                             PlainValue(policy_repo_id))))

\* the --policy.repo_id arguments of train_args
PolicyRepoArgs ==
    SelectSeq(train_args, LAMBDA a : a # <<>> /\ a[1] = "--policy.repo_id=")

NoSlash(text) == \A i \in 1..Len(text) : text[i] # "/"

\* C17 (as stated): exactly one policy repo id argument, the caller's when
\* set, else owner prefix + "/" + policy_type + "_" + dataset name, where the
\* owner prefix is what precedes the dataset name and its "/" (nothing, for
\* a dataset id without "/").
C17_DefaultFromOwnerPrefix ==
    training_cmd # <<>> =>
        /\ Len(PolicyRepoArgs) = 1
        /\ policy_repo_id # <<>> => Tail(PolicyRepoArgs[1]) = policy_repo_id
        /\ policy_repo_id = <<>> =>
              \E k \in 0..Len(dataset_repo_id) :
                 LET owner == SubSeq(dataset_repo_id, 1, k - 1)
                     name == SubSeq(dataset_repo_id, k + 1, Len(dataset_repo_id))
                 IN  /\ NoSlash(name)
                     /\ k > 0 => dataset_repo_id[k] = "/"
                     /\ Tail(PolicyRepoArgs[1])
                          = owner \o <<"/">> \o policy_type \o <<"_">> \o name

\* C17 (amended): exactly one policy repo id argument, the caller's when it
\* is non-empty; else, for a dataset id owner/name (split at its last "/"),
\* owner + "/" + policy_type + "_" + name, and for a dataset id without "/"
\* the whole id takes the owner's place: id + "/" + policy_type + "_" + id.
C17_DefaultFromLastSlash ==
    training_cmd # <<>> =>
        /\ Len(PolicyRepoArgs) = 1
        /\ policy_repo_id # <<>> => Tail(PolicyRepoArgs[1]) = policy_repo_id
        /\ (policy_repo_id = <<>> /\ NoSlash(dataset_repo_id)) =>
              Tail(PolicyRepoArgs[1])
                = dataset_repo_id \o <<"/">> \o policy_type \o <<"_">> \o dataset_repo_id
        /\ (policy_repo_id = <<>> /\ ~NoSlash(dataset_repo_id)) =>
              \E k \in 1..Len(dataset_repo_id) :
                 LET owner == SubSeq(dataset_repo_id, 1, k - 1)
                     name == SubSeq(dataset_repo_id, k + 1, Len(dataset_repo_id))
                 IN  /\ NoSlash(name)
                     /\ dataset_repo_id[k] = "/"
                     /\ Tail(PolicyRepoArgs[1])
                          = owner \o <<"/">> \o policy_type \o <<"_">> \o name

C17_Witness ==
    /\ training_cmd # <<>>
    /\ dataset_repo_id = <<"d">>
    /\ policy_type = <<"a">>
    /\ policy_repo_id = <<>>
    /\ PolicyRepoArgs = << <<"--policy.repo_id=", "d", "/", "a", "_", "d">> >>

\* a direct SSHTunnel call has just returned or raised
TunnelReturned(names) == cmd = "api" /\ pc = "idle" /\ lastCall \in names

\* C25: execute_command, upload_file and download_file called on a session
\* that is not connected (never connected, every attempt failed, or closed)
\* raise the 'Not connected' RuntimeError.
C25_NotConnectedRaises ==
    (/\ TunnelReturned({"execute_command", "upload_file", "download_file"})
     /\ client # "connected")
    => raised = "RuntimeError"

\* C26: at most one connection is open per tunnel, and none stays open when
\* connect has returned False.
C26_OneConnectionOpen ==
    /\ leaked + (IF client = "connected" THEN 1 ELSE 0) <= 1
    /\ connectResult = "False" => (leaked = 0 /\ client # "connected")

\* C27: when connect has returned True the client and the file-transfer
\* sub-channel are both set, and a set sub-channel always goes with the
\* client that the same successful attempt connected.
C27_SftpBelongsToClient ==
    /\ connectResult = "True" => (client = "connected" /\ sftp = "open")
    /\ sftp = "open" => client = "connected"
    /\ sftp = "closed" => client = "closed"

\* C28: connect with max_retries <= 0 makes no attempt and no sleep, leaves
\* the tunnel and everything sent over it as they were, and returns False.
C28_NoAttemptWhenNoRetries ==
    [][(pc = "connect" /\ max_retries <= 0)
         => /\ connectResult' = "False"
            /\ raised' = raised
            /\ attempt = 0 /\ attempt' = 0
            /\ sleeps' = <<>> /\ outcomes' = <<>>
            /\ UNCHANGED <<tunnelVars, closeCalls, execVars, downloads, uploads>>]_vars

\* a tunnel connected by an earlier call, then connect(-1, d) returned
C28_Witness ==
    /\ TunnelReturned({"connect"})
    /\ max_retries = -1
    /\ connectResult = "False"
    /\ client = "connected" /\ sftp = "open"
    /\ attempt = 0 /\ sleeps = <<>>

\* C29: on a connected session upload_file and download_file never raise,
\* return False for a failed transfer and True only for a completed one,
\* and leave the session as it was (connected, nothing closed).
C29_TransferNeverRaises ==
    /\ []((TunnelReturned({"upload_file", "download_file"})
              /\ client = "connected" /\ sftp = "open")
            => /\ raised = "none"
               /\ xferResult \in {"True", "False"}
               /\ lastCall = "upload_file"
                    => (xferResult = "True" <=> Last(uploads) = TRUE)
               /\ lastCall = "download_file"
                    => (xferResult = "True" <=> Last(downloads) = "True"))
    /\ [][(lastCall' \in {"upload_file", "download_file"} /\ calls' = calls + 1)
            => UNCHANGED <<tunnelVars, closeCalls, issued>>]_vars

\* a failed upload, then a download that completes on the same session
C29_Witness ==
    /\ TunnelReturned({"download_file"})
    /\ uploads = <<FALSE>>
    /\ xferResult = "True"
    /\ client = "connected" /\ sftp = "open"
    /\ closeCalls = 0

\* the phase a train run has reached, read from what the run has recorded:
\* started, node ready, session ready, software installed, running, ended
Phase ==
    IF pc = "done" THEN 5
    ELSE IF WorkloadCommand \in Range(issued) THEN 4
    ELSE IF setupResult = "True" THEN 3
    ELSE IF connectResult = "True" THEN 2
    ELSE IF describes = 2 /\ status = "running" /\ ip_address # "None" THEN 1
    ELSE 0

\* C24: the phase of one train run only moves forward: the node is sampled
\* only before any connection attempt, connection attempts are made only on
\* a ready node before any command, every command is issued on the connected
\* session in the order of the plan, a setup command only before the software
\* is installed, and the workload command only after the session is ready
\* (and after the installation when setup was asked for).
C24_PhaseOnlyForward ==
    [][cmd = "train" =>
         /\ Phase' >= Phase
         /\ describes' # describes => (Phase = 0 /\ attempt = 0 /\ issued = <<>>)
         /\ attempt' # attempt => (Phase = 1 /\ issued = <<>>)
         /\ issued' # issued =>
              /\ connectResult = "True" /\ client = "connected"
              /\ issued' = Prefix(TrainPlan, Len(issued) + 1)
              /\ Last(issued') \in Range(SetupCommands) => Phase = 2
              /\ Last(issued') = WorkloadCommand =>
                    Phase = (IF optSetup THEN 3 ELSE 2)]_vars

\* a run that went through node ready, session ready and software installed
\* and then ended
C24_Witness ==
    /\ TrainDone
    /\ optSetup
    /\ describes = 2 /\ status = "running"
    /\ connectResult = "True"
    /\ issued = SetupCommands
    /\ setupResult = "True"
    /\ closeCalls = 1

\* number of times operation op was requested in this launch
Requested(op) == Cardinality({i \in 1..Len(ec2Calls) : ec2Calls[i] = op})

\* C21: every group id create_or_get_security_group returns, on the first
\* or a later call and after an earlier failed call, is of a group that
\* permits inbound SSH; at most one group of the name is ever created.
C21_ReturnedGroupPermitsSsh ==
    /\ (cmd = "launch" /\ sgId = "sg") => (sgExists /\ sgSsh)
    /\ sgCreates <= 1

\* C22: create_or_get_key_pair registers the key pair at most once, and
\* every key path it returns is of a local file holding the registered
\* key's material.
C22_ReturnedKeyExistsLocally ==
    /\ (cmd = "launch" /\ keyPath = "path") => (keyRegistered /\ keyFile = "match")
    /\ keyCreates <= 1

\* C23: one launch requests run_instances at most once, only after
\* create_or_get_key_pair and then create_or_get_security_group have both
\* returned; a failure of any of the three ends the command with exit code 1,
\* no instance started by it and nothing requested after the failure.
C23_ProvisioningFatalNotRetried ==
    /\ [](cmd = "launch" =>
            /\ Requested("run_instances") <= 1
            /\ Requested("describe_key_pairs") <= 1
            /\ Requested("describe_security_groups") <= 1
            /\ Requested("run_instances") = 1 =>
                  /\ keyPath = "path" /\ sgId = "sg"
                  /\ Last(ec2Calls) = "run_instances"
                  /\ pc = "done"
            /\ sgId # "none" => keyPath = "path"
            /\ (keyPath = "raised" \/ sgId = "raised") =>
                  /\ pc = "done"
                  /\ Requested("run_instances") = 0
            /\ (pc = "done" /\ instance_id = "none") =>
                  (raised = "Exit" /\ exitStatus = ExitFailure)
            /\ instance_id # "none" =>
                  (pc = "done" /\ raised = "none" /\ exitStatus = 0))
    /\ [][cmd = "launch" =>
            /\ nodes' # nodes =>
                  /\ nodes' = nodes + 1
                  /\ pc = "n_run" /\ keyPath = "path" /\ sgId = "sg"
                  /\ instance_id' # "none"
            /\ (launches' = launches /\ instance_id' = "none") => nodes' = nodes]_vars

\* a second launch on an account where the first one started an instance:
\* its group step failed and it ended without an instance
C23_Witness ==
    /\ cmd = "launch" /\ pc = "done"
    /\ launches = 2
    /\ nodes = 1
    /\ keyPath = "path" /\ sgId = "raised"
    /\ instance_id = "none"
    /\ exitStatus = ExitFailure

\* C30: create_key_pair and create_security_group are requested only when
\* the lookup answered not-found; any other lookup failure is raised and
\* nothing is created.
C30_CreateOnlyAfterNotFound ==
    cmd = "launch" =>
       /\ Requested("create_key_pair") > 0 => keyLookup = "not_found"
       /\ Requested("create_security_group") > 0 => sgLookup = "not_found"
       /\ keyLookup = "error" => keyPath = "raised"
       /\ sgLookup = "error" => sgId = "raised"

\* C31: in the terminate command the deletions are attempted only after
\* the terminate request returned without error; the security group and
\* then the key pair are both attempted whatever the first one returned,
\* and the command ends with status 0 whatever the deletions returned.
C31_CleanupAfterTerminateNeverFatal ==
    /\ []((cmd = "terminate" /\ cleanupLog # <<>>) =>
            /\ optSetup
            /\ termCalls = 1
            /\ Len(cleanupLog) = 2
            /\ cleanupLog[1].what = "security_group"
            /\ cleanupLog[2].what = "key_pair"
            /\ pc = "done" /\ raised = "none" /\ exitStatus = 0)
    /\ []((cmd = "terminate" /\ pc = "done" /\ exitStatus # 0) => cleanupLog = <<>>)
    /\ [][cleanupLog' # cleanupLog =>
            (pc = "x_cleanup" /\ termCalls = 1 /\ raised = "none")]_vars

\* the group could not be deleted, the key pair was, and the command succeeded
C31_Witness ==
    /\ cmd = "terminate" /\ pc = "done"
    /\ Len(cleanupLog) = 2
    /\ ~cleanupLog[1].ok /\ cleanupLog[2].ok
    /\ exitStatus = 0

=============================================================================
